---- MODULE Spec2Model ----
(***************************************************************************)
(* A model of the titanoboa framework (src/main.py): the module registry   *)
(* of class Framework (register_module, run_module,                        *)
(* auto_discover_and_register), the startup sequence of titanoboa(), and   *)
(* the Server / Client threads that share one queue.Queue.                 *)
(***************************************************************************)
EXTENDS Naturals, Sequences, FiniteSets, TLC

VARIABLES
    modules,    \* Framework.modules: a dict, kept as its items in insertion order
    log,        \* the records written through logging.info / logging.error
    invoked,    \* the entry points (module.run) called so far, in call order
    running,    \* the run_module call whose module.run is awaited, or NoCall
    result,     \* how the last completed Framework call ended
    calls,      \* history: the Framework calls made so far, with their arguments
    queue,      \* SharedLibs.communication_queue: the entries of the Queue, oldest first
    spc,        \* Server.run_server: where the server thread is
    sdata,      \* Server.run_server: data, the entry the server holds
    cpc,        \* Client.run_client: where the client thread is
    ci,         \* Client.run_client: i, the round of the client's loop
    delivered,  \* the entries the server has got ("Server received: ...")
    received,   \* the entries the client has got ("Client received: ..."), with the round
    fs,         \* the directories ./<module_type>: whether each exists, and os.listdir of it
    loader,     \* what importlib.import_module gives for each candidate module name
    scan,       \* auto_discover_and_register: how many listed files the loops have passed
    pc,         \* titanoboa (the main thread): where it is
    di          \* titanoboa: how many items of app.modules the final loop has passed

regvars == <<modules, log, invoked, running, result, calls>>

chanvars == <<queue, spc, sdata, cpc, ci, delivered, received>>

envvars == <<fs, loader>>

mainvars == <<scan, pc, di>>

vars == <<modules, log, invoked, running, result, calls,
          queue, spc, sdata, cpc, ci, delivered, received,
          fs, loader, scan, pc, di>>

(***************************************************************************)
(* Bounds of the model.                                                    *)
(***************************************************************************)
MaxCalls == 4

\* the server's loop never ends: the model stops it after this many entries
MaxServe == 5

\* the most files the directories hold together
MaxFiles == 3

\* the most "Server acknowledged: " prefixes the model tells apart where the
\* server's loop is not stopped
MaxAcks == 3

(***************************************************************************)
(* Values.                                                                 *)
(***************************************************************************)
NoCall == [name |-> "", module |-> "none"]

NoResult == [seq |-> 0, op |-> "none", name |-> "", outcome |-> "none", value |-> "None"]

\* SharedLibs(): the one execution context handed to every module.run
SharedLibsObject == "shared_libs"

\* Names and module objects used by direct callers of the Framework.
UnitNames == {"a", "b", "c"}

UnitModules ==
    { [id |-> "m1", run |-> "ok"],
      [id |-> "m2", run |-> "ok"],
      [id |-> "m3", run |-> "raises"] }

(***************************************************************************)
(* A Python dict as the sequence of its items in insertion order.          *)
(***************************************************************************)
DictKeys(d) == { d[k].name : k \in 1..Len(d) }

DictHas(d, name) == \E k \in 1..Len(d) : d[k].name = name

DictGet(d, name) == d[CHOOSE k \in 1..Len(d) : d[k].name = name].module

\* d[name] = module: a present key keeps its position and takes the new value
DictSet(d, name, module) ==
    IF DictHas(d, name)
    THEN [k \in 1..Len(d) |->
            IF d[k].name = name THEN [name |-> name, module |-> module] ELSE d[k]]
    ELSE Append(d, [name |-> name, module |-> module])

LogRecord(level, kind, name) == [level |-> level, kind |-> kind, name |-> name]

Returned(op, name) ==
    [seq |-> result.seq + 1, op |-> op, name |-> name,
     outcome |-> "returned", value |-> "None"]

Raised(op, name) ==
    [seq |-> result.seq + 1, op |-> op, name |-> name,
     outcome |-> "raised", value |-> "exception"]

(***************************************************************************)
(* Framework.register_module(name, module)                                 *)
(***************************************************************************)
\* the duplicate check left out: the assignment rebinds a registered name
RegisterModuleOverwrite(name, module) ==
    /\ modules' = DictSet(modules, name, module)
    /\ log' = Append(log, LogRecord("info", "registered", name))

RegisterModule(name, module) ==
    IF DictHas(modules, name)
    THEN /\ log' = Append(log, LogRecord("error", "already_exists", name))
         /\ modules' = modules
    ELSE /\ modules' = DictSet(modules, name, module)
         /\ log' = Append(log, LogRecord("info", "registered", name))

(***************************************************************************)
(* Framework.run_module(name): the lookup and the call of module.run, and  *)
(* then the completion of the awaited module.run.                          *)
(***************************************************************************)
\* the early return after the error is missing: self.modules[name] raises KeyError
RunModuleBeginNoReturn(name) ==
    IF ~DictHas(modules, name)
    THEN /\ log' = Append(log, LogRecord("error", "not_found", name))
         /\ result' = Raised("run_module", name)
         /\ UNCHANGED <<invoked, running>>
    ELSE /\ running' = [name |-> name, module |-> DictGet(modules, name)]
         /\ invoked' = Append(invoked, [name |-> name,
                                        module |-> DictGet(modules, name),
                                        ctx |-> SharedLibsObject])
         /\ UNCHANGED <<log, result>>

\* module.run is called without the shared libraries
RunModuleBeginNoContext(name) ==
    IF ~DictHas(modules, name)
    THEN /\ log' = Append(log, LogRecord("error", "not_found", name))
         /\ result' = Returned("run_module", name)
         /\ UNCHANGED <<invoked, running>>
    ELSE /\ running' = [name |-> name, module |-> DictGet(modules, name)]
         /\ invoked' = Append(invoked, [name |-> name,
                                        module |-> DictGet(modules, name),
                                        ctx |-> "none"])
         /\ UNCHANGED <<log, result>>

RunModuleBegin(name) ==
    IF ~DictHas(modules, name)
    THEN /\ log' = Append(log, LogRecord("error", "not_found", name))
         /\ result' = Returned("run_module", name)
         /\ UNCHANGED <<invoked, running>>
    ELSE /\ running' = [name |-> name, module |-> DictGet(modules, name)]
         /\ invoked' = Append(invoked, [name |-> name,
                                        module |-> DictGet(modules, name),
                                        ctx |-> SharedLibsObject])
         /\ UNCHANGED <<log, result>>

\* await module.run(...): it returns, or its exception leaves run_module
RunModuleEnd ==
    /\ running # NoCall
    /\ result' = IF running.module.run = "raises"
                 THEN Raised("run_module", running.name)
                 ELSE Returned("run_module", running.name)
    /\ running' = NoCall

(***************************************************************************)
(* The entries of the queue.  "Client message i" under k prefixes          *)
(* "Server acknowledged: " is the record [msg |-> i, acks |-> k].          *)
(***************************************************************************)
NumMessages == 5

NoEntry == [msg |-> NumMessages, acks |-> 0]

\* f"Client message {i}"
ClientMessage(i) == [msg |-> i, acks |-> 0]

\* f"Server acknowledged: {data}"
Acknowledged(data) == [msg |-> data.msg, acks |-> data.acks + 1]

(***************************************************************************)
(* Server.run_server: while True: if not queue.empty(): get, log, put.     *)
(* Each Queue method is one step (the Queue's mutex); get waits while the  *)
(* queue is empty.                                                         *)
(***************************************************************************)
ServerCheck ==
    /\ spc = "check"
    /\ spc' = IF queue # <<>> THEN "get" ELSE "check"
    /\ UNCHANGED <<queue, sdata, cpc, ci, delivered, received>>
    /\ UNCHANGED <<regvars, envvars, mainvars>>

\* a get that leaves the entry in the queue
ServerGetPeek ==
    /\ spc = "get"
    /\ queue # <<>>
    /\ Len(delivered) < MaxServe
    /\ sdata' = Head(queue)
    /\ queue' = queue
    /\ delivered' = Append(delivered, Head(queue))
    /\ spc' = "put"
    /\ UNCHANGED <<cpc, ci, received>>
    /\ UNCHANGED <<regvars, envvars, mainvars>>

ServerGet ==
    /\ spc = "get"
    /\ queue # <<>>
    /\ Len(delivered) < MaxServe
    /\ sdata' = Head(queue)
    /\ queue' = Tail(queue)
    /\ delivered' = Append(delivered, Head(queue))
    /\ spc' = "put"
    /\ UNCHANGED <<cpc, ci, received>>
    /\ UNCHANGED <<regvars, envvars, mainvars>>

ServerPut ==
    /\ spc = "put"
    /\ queue' = Append(queue, Acknowledged(sdata))
    /\ sdata' = NoEntry
    /\ spc' = "check"
    /\ UNCHANGED <<cpc, ci, delivered, received>>
    /\ UNCHANGED <<regvars, envvars, mainvars>>

\* the server's loop as it runs without end: every get and put is taken; the
\* entries gotten are kept up to MaxServe of them and the prefixes of an entry
\* are counted up to MaxAcks.  No step of either thread reads what an entry
\* holds, so the steps that can follow are those of the code.
AcknowledgedUpTo(data) ==
    [msg |-> data.msg,
     acks |-> IF data.acks < MaxAcks THEN data.acks + 1 ELSE MaxAcks]

ServerGetForever ==
    /\ spc = "get"
    /\ queue # <<>>
    /\ sdata' = Head(queue)
    /\ queue' = Tail(queue)
    /\ delivered' = IF Len(delivered) < MaxServe
                    THEN Append(delivered, Head(queue))
                    ELSE delivered
    /\ spc' = "put"
    /\ UNCHANGED <<cpc, ci, received>>
    /\ UNCHANGED <<regvars, envvars, mainvars>>

ServerPutForever ==
    /\ spc = "put"
    /\ queue' = Append(queue, AcknowledgedUpTo(sdata))
    /\ sdata' = NoEntry
    /\ spc' = "check"
    /\ UNCHANGED <<cpc, ci, delivered, received>>
    /\ UNCHANGED <<regvars, envvars, mainvars>>

(***************************************************************************)
(* Client.run_client: for i in range(5): put, wait(1), if not empty: get.  *)
(***************************************************************************)
ClientNextRound == IF ci + 1 < NumMessages THEN "put" ELSE "done"

ClientPut ==
    /\ cpc = "put"
    /\ queue' = Append(queue, ClientMessage(ci))
    /\ cpc' = "wait"
    /\ UNCHANGED <<spc, sdata, ci, delivered, received>>
    /\ UNCHANGED <<regvars, envvars, mainvars>>

\* threading.Event().wait(1) times out, then the test of queue.empty()
ClientCheck ==
    /\ cpc = "wait"
    /\ IF queue # <<>>
       THEN cpc' = "get" /\ ci' = ci
       ELSE cpc' = ClientNextRound /\ ci' = ci + 1
    /\ UNCHANGED <<queue, spc, sdata, delivered, received>>
    /\ UNCHANGED <<regvars, envvars, mainvars>>

\* a get that takes only the acknowledgment of the message of this round
ClientGetCorrelated ==
    /\ cpc = "get"
    /\ queue # <<>>
    /\ Head(queue) = Acknowledged(ClientMessage(ci))
    /\ received' = Append(received, [round |-> ci, entry |-> Head(queue)])
    /\ queue' = Tail(queue)
    /\ cpc' = ClientNextRound
    /\ ci' = ci + 1
    /\ UNCHANGED <<spc, sdata, delivered>>
    /\ UNCHANGED <<regvars, envvars, mainvars>>

ClientGet ==
    /\ cpc = "get"
    /\ queue # <<>>
    /\ received' = Append(received, [round |-> ci, entry |-> Head(queue)])
    /\ queue' = Tail(queue)
    /\ cpc' = ClientNextRound
    /\ ci' = ci + 1
    /\ UNCHANGED <<spc, sdata, delivered>>
    /\ UNCHANGED <<regvars, envvars, mainvars>>

(***************************************************************************)
(* The files of the module directories.  A file name is the sequence of    *)
(* its parts, so that endswith(".py"), 'orchestrate' in file and file[:-3] *)
(* are computed on it; FileOrder lists the names in ascending string order.*)
(***************************************************************************)
\* Framework.module_types
ModuleTypes == <<"models", "controllers", "services", "utils", "security">>

FileOrder ==
    << <<"a_", "orchestrate", "_1", ".py">>,
       <<"b_", "orchestrate", "_2", ".py">>,
       <<"helper", ".py">>,
       <<"orchestrate", ".txt">> >>

FileNames == { FileOrder[k] : k \in 1..Len(FileOrder) }

FileRank(file) == CHOOSE k \in 1..Len(FileOrder) : FileOrder[k] = file

RECURSIVE Concat(_)
Concat(parts) ==
    IF parts = <<>> THEN "" ELSE Head(parts) \o Concat(Tail(parts))

\* file.endswith(".py")
EndsWithPy(file) == file[Len(file)] = ".py"

\* 'orchestrate' in file
HasMarker(file) == \E k \in 1..Len(file) : file[k] = "orchestrate"

IsCandidate(file) == EndsWithPy(file) /\ HasMarker(file)

\* f"{module_type}.{file[:-3]}": the three characters cut are the part ".py"
ModuleName(module_type, file) ==
    module_type \o "." \o Concat(SubSeq(file, 1, Len(file) - 1))

\* sorted(names): ascending string order
RECURSIVE Sorted(_)
Sorted(names) ==
    IF names = {} THEN <<>>
    ELSE LET least == CHOOSE f \in names :
                        \A g \in names : FileRank(f) <= FileRank(g)
         IN  <<least>> \o Sorted(names \ {least})

SeqToSet(q) == { q[k] : k \in 1..Len(q) }

\* sorted() left out: the files are passed in the order os.listdir gives them
RECURSIVE ListingFromUnsorted(_)
ListingFromUnsorted(k) ==
    IF k > Len(ModuleTypes) THEN <<>>
    ELSE LET t == ModuleTypes[k]
             names == fs[t].listing
             here == IF fs[t].exists
                     THEN [j \in 1..Len(names) |-> [type |-> t, file |-> names[j]]]
                     ELSE <<>>
         IN  here \o ListingFromUnsorted(k + 1)

\* the files the two loops of auto_discover_and_register pass, in their order:
\* each module type in turn, skipped if its directory is missing, and within it
\* sorted(os.listdir(dir_path))
RECURSIVE ListingFrom(_)
ListingFrom(k) ==
    IF k > Len(ModuleTypes) THEN <<>>
    ELSE LET t == ModuleTypes[k]
             names == Sorted(SeqToSet(fs[t].listing))
             here == IF fs[t].exists
                     THEN [j \in 1..Len(names) |-> [type |-> t, file |-> names[j]]]
                     ELSE <<>>
         IN  here \o ListingFrom(k + 1)

Listing == ListingFrom(1)

\* importlib.import_module(module_name), when it does not raise
ImportedModule(module_name) == [id |-> module_name, run |-> loader[module_name]]

(***************************************************************************)
(* Framework.auto_discover_and_register: one pass of the inner loop.       *)
(***************************************************************************)
\* the try encloses the loops: the first import that fails ends the scan
DiscoverStepAbortOnFailure ==
    /\ pc = "discover"
    /\ scan < Len(Listing)
    /\ LET item == Listing[scan + 1]
           module_name == ModuleName(item.type, item.file)
       IN  IF IsCandidate(item.file)
           THEN IF loader[module_name] = "import_error"
                THEN /\ log' = Append(log, LogRecord("error", "load_failed", module_name))
                     /\ modules' = modules
                     /\ scan' = Len(Listing)
                ELSE /\ RegisterModule(module_name, ImportedModule(module_name))
                     /\ scan' = scan + 1
           ELSE /\ UNCHANGED <<modules, log>>
                /\ scan' = scan + 1
    /\ UNCHANGED <<invoked, running, result, calls, pc, di>>
    /\ UNCHANGED <<chanvars, envvars>>

DiscoverStep ==
    /\ pc = "discover"
    /\ scan < Len(Listing)
    /\ LET item == Listing[scan + 1]
           module_name == ModuleName(item.type, item.file)
       IN  IF IsCandidate(item.file)
           THEN IF loader[module_name] = "import_error"
                THEN /\ log' = Append(log, LogRecord("error", "load_failed", module_name))
                     /\ modules' = modules
                ELSE RegisterModule(module_name, ImportedModule(module_name))
           ELSE UNCHANGED <<modules, log>>
    /\ scan' = scan + 1
    /\ UNCHANGED <<invoked, running, result, calls, pc, di>>
    /\ UNCHANGED <<chanvars, envvars>>

\* the threads are started only after the loop over app.modules
DiscoverReturnToDispatch ==
    /\ pc = "discover"
    /\ scan = Len(Listing)
    /\ pc' = "dispatch"
    /\ UNCHANGED <<regvars, chanvars, envvars, scan, di>>

\* the loops are through: auto_discover_and_register returns
DiscoverReturn ==
    /\ pc = "discover"
    /\ scan = Len(Listing)
    /\ pc' = "start_server"
    /\ UNCHANGED <<regvars, chanvars, envvars, scan, di>>

(***************************************************************************)
(* titanoboa after the discovery: server.start(), client.start(), and the  *)
(* loop  for module in app.modules: asyncio.run(app.run_module(module)).   *)
(***************************************************************************)
\* Server.start: threading.Thread(target=self.run_server).start()
StartServer ==
    /\ pc = "start_server"
    /\ spc' = "check"
    /\ pc' = "start_client"
    /\ UNCHANGED <<queue, sdata, cpc, ci, delivered, received>>
    /\ UNCHANGED <<regvars, envvars, scan, di>>

\* Client.start: threading.Thread(target=self.run_client).start()
StartClient ==
    /\ pc = "start_client"
    /\ cpc' = "put"
    /\ pc' = "dispatch"
    /\ UNCHANGED <<queue, spc, sdata, ci, delivered, received>>
    /\ UNCHANGED <<regvars, envvars, scan, di>>

\* the next key of app.modules: asyncio.run(app.run_module(module)) begins
DispatchBegin ==
    /\ pc = "dispatch"
    /\ running = NoCall
    /\ di < Len(modules)
    /\ RunModuleBegin(modules[di + 1].name)
    /\ UNCHANGED <<modules, calls>>
    /\ UNCHANGED <<chanvars, envvars, mainvars>>

\* asyncio.run returns, or the exception of module.run leaves the loop and
\* titanoboa: nothing catches it
DispatchEnd ==
    /\ pc = "dispatch"
    /\ RunModuleEnd
    /\ IF running.module.run = "raises"
       THEN pc' = "crashed" /\ di' = di
       ELSE pc' = pc /\ di' = di + 1
    /\ UNCHANGED <<modules, log, invoked, calls, scan>>
    /\ UNCHANGED <<chanvars, envvars>>

\* app.modules is exhausted: titanoboa returns
DispatchDone ==
    /\ pc = "dispatch"
    /\ running = NoCall
    /\ di = Len(modules)
    /\ pc' = "done"
    /\ UNCHANGED <<regvars, chanvars, envvars, scan, di>>

(***************************************************************************)
(* A caller that uses a Framework object directly: any sequence of         *)
(* register_module and run_module calls, one at a time.                    *)
(***************************************************************************)
CallRegister ==
    /\ pc = "caller"
    /\ running = NoCall
    /\ Len(calls) < MaxCalls
    /\ \E name \in UnitNames, module \in UnitModules :
        /\ RegisterModule(name, module)
        /\ result' = Returned("register_module", name)
        /\ calls' = Append(calls, [op |-> "register_module", name |-> name,
                                   module |-> module])
    /\ UNCHANGED <<invoked, running>>
    /\ UNCHANGED <<chanvars, envvars, mainvars>>

CallRun ==
    /\ pc = "caller"
    /\ running = NoCall
    /\ Len(calls) < MaxCalls
    /\ \E name \in UnitNames :
        /\ RunModuleBegin(name)
        /\ calls' = Append(calls, [op |-> "run_module", name |-> name,
                                   module |-> "none"])
    /\ UNCHANGED <<modules>>
    /\ UNCHANGED <<chanvars, envvars, mainvars>>

CallRunEnd ==
    /\ pc = "caller"
    /\ RunModuleEnd
    /\ UNCHANGED <<modules, log, invoked, calls>>
    /\ UNCHANGED <<chanvars, envvars, mainvars>>

\* Framework.__init__
InitFramework ==
    /\ modules = <<>>
    /\ log = <<>>
    /\ invoked = <<>>
    /\ running = NoCall
    /\ result = NoResult
    /\ calls = <<>>

\* SharedLibs.__init__ makes the Queue; no thread is started
InitQueue ==
    /\ queue = <<>>
    /\ spc = "idle"
    /\ sdata = NoEntry
    /\ cpc = "idle"
    /\ ci = 0
    /\ delivered = <<>>
    /\ received = <<>>

NoDirectory == [exists |-> FALSE, listing |-> <<>>]

EmptyDirectory == [exists |-> TRUE, listing |-> <<>>]

NoDirectories == [t \in SeqToSet(ModuleTypes) |-> NoDirectory]

\* the module names a file system holds candidates for
CandidateNames(f) ==
    { ModuleName(t, file) : t \in { u \in SeqToSet(ModuleTypes) : f[u].exists },
                            file \in { g \in FileNames : IsCandidate(g) } }
    \cap
    UNION { { ModuleName(t, f[t].listing[k]) : k \in 1..Len(f[t].listing) } :
            t \in SeqToSet(ModuleTypes) }

\* os.listdir gives the names of a directory once each, in any order
Listings ==
    { l \in UNION { [1..n -> FileNames] : n \in 0..MaxFiles } :
        \A j, k \in 1..Len(l) : j # k => l[j] # l[k] }

(***************************************************************************)
(* A caller of the Framework's methods.                                    *)
(***************************************************************************)
InitRegistry ==
    /\ InitFramework
    /\ InitQueue
    /\ fs = NoDirectories
    /\ loader = <<>>
    /\ scan = 0
    /\ pc = "caller"
    /\ di = 0

NextRegistry == CallRegister \/ CallRun \/ CallRunEnd

SpecRegistry == InitRegistry /\ [][NextRegistry]_vars

(***************************************************************************)
(* auto_discover_and_register on a new Framework, over the file systems    *)
(* with files in at most two directories and MaxFiles files in all.        *)
(***************************************************************************)
InitDiscover ==
    /\ InitFramework
    /\ InitQueue
    /\ \E j, k \in 1..Len(ModuleTypes), lj, lk \in Listings :
        /\ j < k
        /\ Len(lj) + Len(lk) <= MaxFiles
        /\ fs = [t \in SeqToSet(ModuleTypes) |->
                    IF t = ModuleTypes[j] THEN [exists |-> TRUE, listing |-> lj]
                    ELSE IF t = ModuleTypes[k] /\ lk # <<>>
                         THEN [exists |-> TRUE, listing |-> lk]
                         ELSE NoDirectory]
    /\ loader \in [CandidateNames(fs) -> {"ok", "raises", "import_error"}]
    /\ scan = 0
    /\ pc = "discover"
    /\ di = 0

NextDiscover == DiscoverStep \/ DiscoverReturn

SpecDiscover == InitDiscover /\ [][NextDiscover]_vars

(***************************************************************************)
(* The two threads on the queue, started by titanoboa on a Framework that  *)
(* found no module (titanoboa has returned).                               *)
(***************************************************************************)
InitChannel ==
    /\ InitFramework
    /\ queue = <<>>
    /\ spc = "check"
    /\ sdata = NoEntry
    /\ cpc = "put"
    /\ ci = 0
    /\ delivered = <<>>
    /\ received = <<>>
    /\ fs = NoDirectories
    /\ loader = <<>>
    /\ scan = 0
    /\ pc = "done"
    /\ di = 0

NextChannel ==
    \/ ServerCheck
    \/ ServerGet
    \/ ServerPut
    \/ ClientPut
    \/ ClientCheck
    \/ ClientGet

SpecChannel == InitChannel /\ [][NextChannel]_vars

\* The same two threads with the server's loop not stopped, and each thread
\* given the processor again and again: a thread that could take its next
\* step from some point on without end takes it.  A thread inside queue.get()
\* on an empty queue has no step to take; Queue gives no turn to a waiting
\* get over a get made by the other thread.
ServerStep == ServerCheck \/ ServerGetForever \/ ServerPutForever

ClientStep == ClientPut \/ ClientCheck \/ ClientGet

NextChannelFair == ServerStep \/ ClientStep

SpecChannelFair ==
    /\ InitChannel
    /\ [][NextChannelFair]_vars
    /\ WF_vars(ServerStep)
    /\ WF_vars(ClientStep)

(***************************************************************************)
(* titanoboa(project_name), from the call of auto_discover_and_register    *)
(* on: three candidates in two directories, of which at most one fails to  *)
(* import or has a run that raises.                                        *)
(***************************************************************************)
MainFileSystem ==
    [t \in SeqToSet(ModuleTypes) |->
        IF t = "models"
        THEN [exists |-> TRUE,
              listing |-> <<FileOrder[3], FileOrder[2], FileOrder[1]>>]
        ELSE IF t = "controllers"
             THEN [exists |-> TRUE, listing |-> <<FileOrder[1]>>]
             ELSE IF t = "utils" THEN EmptyDirectory ELSE NoDirectory]

Init ==
    /\ InitFramework
    /\ InitQueue
    /\ fs = MainFileSystem
    /\ loader \in { l \in [CandidateNames(fs) -> {"ok", "raises", "import_error"}] :
                      Cardinality({ n \in DOMAIN l : l[n] # "ok" }) <= 1 }
    /\ scan = 0
    /\ pc = "discover"
    /\ di = 0

Next ==
    \/ DiscoverStep
    \/ DiscoverReturn
    \/ StartServer
    \/ StartClient
    \/ DispatchBegin
    \/ DispatchEnd
    \/ DispatchDone
    \/ ServerCheck
    \/ ServerGet
    \/ ServerPut
    \/ ClientPut
    \/ ClientCheck
    \/ ClientGet

Spec == Init /\ [][Next]_vars

\* a Framework under either use: direct calls on a new one, or titanoboa()
InitEither == InitRegistry \/ Init

NextEither == NextRegistry \/ Next

SpecFramework == InitEither /\ [][NextEither]_vars

(***************************************************************************)
(* What the claims about the registry read.                                *)
(***************************************************************************)
Last(s) == s[Len(s)]

\* the module given to the first register_module call made under `name`
FirstRegistered(name) ==
    calls[CHOOSE k \in 1..Len(calls) :
            /\ calls[k].op = "register_module" /\ calls[k].name = name
            /\ \A j \in 1..(k - 1) :
                 ~(calls[j].op = "register_module" /\ calls[j].name = name)].module

EverRegistered(name) ==
    \E k \in 1..Len(calls) : calls[k].op = "register_module" /\ calls[k].name = name

Accepted(name) ==
    Cardinality({ k \in 1..Len(log) :
                    log[k].kind = "registered" /\ log[k].name = name })

\* the step in which a call of `op` on `name` ends
Completes(op, name) ==
    /\ result'.seq # result.seq
    /\ result'.op = op
    /\ result'.name = name

C2_MissPropagates ==
    [][\A name \in UnitNames :
         (Completes("run_module", name) /\ ~DictHas(modules, name))
         => result'.outcome = "raised"]_vars

\* C2 amended: run_module on a name that is not registered writes the error
\* record "not found", calls no entry point, changes nothing else, and returns
\* normally with the value None, which is what a successful run returns too.
C2_MissLoggedAndReturned ==
    [][\A name \in UnitNames :
         (Completes("run_module", name) /\ ~DictHas(modules, name))
         => /\ result'.outcome = "returned"
            /\ result'.value = "None"
            /\ log' = Append(log, LogRecord("error", "not_found", name))
            /\ invoked' = invoked
            /\ running' = NoCall
            /\ modules' = modules]_vars

\* run_module was just called on a name that no register_module call was given
C2_Witness ==
    /\ result.op = "run_module"
    /\ Len(log) > 0
    /\ Last(log) = LogRecord("error", "not_found", result.name)
    /\ ~EverRegistered(result.name)
    /\ Len(modules) > 0

\* C3: run_module on a registered name calls the run of exactly the module that
\* the first register_module call under that name was given, once, with the
\* shared libraries as its argument; until that run ends nothing else is called.
C3_HitInvokesRegistered ==
    [][/\ \A name \in UnitNames :
            (running = NoCall /\ Len(calls') > Len(calls)
                /\ Last(calls').op = "run_module" /\ Last(calls').name = name
                /\ DictHas(modules, name))
            => /\ invoked' = Append(invoked, [name |-> name,
                                              module |-> FirstRegistered(name),
                                              ctx |-> SharedLibsObject])
               /\ running'.name = name
       /\ running # NoCall => invoked' = invoked]_vars

\* a name registered twice with different modules has been run
C3_Witness ==
    /\ Len(invoked) = 1
    /\ running = NoCall
    /\ result.op = "run_module"
    /\ \E k \in 1..Len(calls) :
         /\ calls[k].op = "register_module"
         /\ calls[k].name = invoked[1].name
         /\ calls[k].module # invoked[1].module

(***************************************************************************)
(* What the claims about the discovery and the startup read.               *)
(***************************************************************************)
Loadable == { n \in CandidateNames(fs) : loader[n] # "import_error" }

Unloadable == { n \in CandidateNames(fs) : loader[n] = "import_error" }

LoadFailures == { k \in 1..Len(log) : log[k].kind = "load_failed" }

\* whether the k-th listed file is a candidate whose import gives `outcome`
ListedWith(k, failing) ==
    /\ IsCandidate(Listing[k].file)
    /\ (loader[ModuleName(Listing[k].type, Listing[k].file)] = "import_error") = failing

Invocations(name) ==
    Cardinality({ k \in 1..Len(invoked) : invoked[k].name = name })

ThreadStarted == spc # "idle" \/ cpc # "idle"

\* C4: when auto_discover_and_register has returned on a new Framework, the
\* registered names are exactly the candidates whose import succeeded (K of
\* them, each accepted once) and the load failures logged are exactly the
\* candidates whose import raised (M of them, one record each), wherever the
\* failing candidates stand in the listing.
C4_DiscoveryRegistersLoadable ==
    pc # "discover"
    => /\ DictKeys(modules) = Loadable
       /\ Len(modules) = Cardinality(Loadable)
       /\ \A n \in Loadable : Accepted(n) = 1
       /\ { log[k].name : k \in LoadFailures } = Unloadable
       /\ Cardinality(LoadFailures) = Cardinality(Unloadable)
       /\ scan = Len(Listing)

\* the discovery is through a listing with a failing candidate between two
\* loadable ones
C4_Witness ==
    /\ pc = "start_server"
    /\ \E i, j, k \in 1..Len(Listing) :
         /\ i < j /\ j < k
         /\ ListedWith(i, FALSE) /\ ListedWith(j, TRUE) /\ ListedWith(k, FALSE)
    /\ Len(modules) = 2
    /\ Cardinality(LoadFailures) = 1

\* C5 as stated: when the loop over app.modules has ended and one registered
\* unit's run always raises, every other registered unit was invoked exactly
\* once.
C5_OtherUnitsStillRun ==
    (/\ pc \in {"done", "crashed"}
     /\ Cardinality({ k \in 1..Len(modules) : modules[k].module.run = "raises" }) = 1)
    => \A k \in 1..Len(modules) :
         modules[k].module.run = "ok" => Invocations(modules[k].name) = 1

\* C6 as stated: the units are invoked one at a time (an invocation begins only
\* when all earlier ones have ended), in the order of their registration, and
\* when the loop has ended the invocations are exactly the registered units
\* in that order.
C6_RunAllInRegistrationOrder ==
    /\ Len(invoked) - result.seq \in {0, 1}
    /\ Len(invoked) <= Len(modules)
    /\ \A k \in 1..Len(invoked) : invoked[k].name = modules[k].name
    /\ pc \in {"done", "crashed"}
       => [k \in 1..Len(invoked) |-> invoked[k].name]
            = [k \in 1..Len(modules) |-> modules[k].name]

AcksPut ==
    [k \in 1..(IF spc = "put" THEN Len(delivered) - 1 ELSE Len(delivered)) |->
        Acknowledged(delivered[k])]

\* C7 as stated: the server gets exactly the client's messages, in the order
\* they were put: its k-th entry is "Client message k-1", never an
\* acknowledgment, so never more than NumMessages entries.
C7_ServerGetsClientMessages ==
    /\ \A k \in 1..Len(delivered) : delivered[k] = ClientMessage(k - 1)
    /\ Len(delivered) <= NumMessages

\* C8 as stated: every acknowledgment the server puts is that of a client
\* message, no client message is acknowledged twice, and when the client is
\* through and nothing is left to take, each of its messages has been
\* acknowledged.
C8_OneAckPerMessage ==
    /\ \A k \in 1..Len(AcksPut) : AcksPut[k].acks = 1
    /\ \A j, k \in 1..Len(AcksPut) : j # k => AcksPut[j] # AcksPut[k]
    /\ (cpc = "done" /\ queue = <<>> /\ spc # "put")
       => \A i \in 0..(NumMessages - 1) :
            \E k \in 1..Len(AcksPut) : AcksPut[k] = Acknowledged(ClientMessage(i))

\* C9 as stated: in each round the client gets an entry, and it is the
\* acknowledgment of the message of that round; and once the client is through
\* and the queue is empty with nothing held by the server, it stays so.
C9_ClientGetsItsAck ==
    /\ \A k \in 1..Len(received) :
         received[k].entry = Acknowledged(ClientMessage(received[k].round))
    /\ cpc \in {"put", "done"} => Len(received) = ci

(***************************************************************************)
(* What the claim about the order of the discovery reads.                  *)
(***************************************************************************)
\* every (module type, file name), the types in the order of module_types and
\* within a type the names in ascending order
AllPaths ==
    [n \in 1..(Len(ModuleTypes) * Len(FileOrder)) |->
        [type |-> ModuleTypes[((n - 1) \div Len(FileOrder)) + 1],
         file |-> FileOrder[((n - 1) % Len(FileOrder)) + 1]]]

\* whether the set of files of the file system holds this path as a candidate
\* that imports
HoldsLoadable(path) ==
    /\ fs[path.type].exists
    /\ path.file \in SeqToSet(fs[path.type].listing)
    /\ IsCandidate(path.file)
    /\ loader[ModuleName(path.type, path.file)] # "import_error"

CanonicalOrder ==
    LET kept == SelectSeq(AllPaths, HoldsLoadable)
    IN  [k \in 1..Len(kept) |-> ModuleName(kept[k].type, kept[k].file)]

RegistrationOrder == [k \in 1..Len(modules) |-> modules[k].name]

\* C11: when the discovery has returned, the order of the registered names (the
\* order in which the loop over app.modules dispatches) is the one fixed by the
\* set of files alone: module types in the order of module_types, within a type
\* the names ascending; so two runs over the same files register in the same
\* order whatever order os.listdir gives.
C11_RegistrationOrderDeterministic ==
    pc # "discover" => RegistrationOrder = CanonicalOrder

\* the discovery is through a directory that os.listdir gave out of order, with
\* two of its files registered
C11_Witness ==
    /\ pc = "start_server"
    /\ \E t \in SeqToSet(ModuleTypes) : \E j, k \in 1..Len(fs[t].listing) :
         /\ j < k
         /\ FileRank(fs[t].listing[j]) > FileRank(fs[t].listing[k])
         /\ HoldsLoadable([type |-> t, file |-> fs[t].listing[j]])
         /\ HoldsLoadable([type |-> t, file |-> fs[t].listing[k]])

\* C12: the client's get takes whatever entry stands at the head of the shared
\* queue: whenever the client is at its get and the queue holds an entry, the
\* get goes through, whether or not that entry is the acknowledgment of the
\* message of this round; so there are runs in which the entry of round i is
\* not "Server acknowledged: Client message i" (C12_Witness).
C12_GetTakesAnyHead ==
    (cpc = "get" /\ queue # <<>>) => ENABLED ClientGet

\* the client has taken its own message, not yet seen by the server, in one
\* round and an entry of an earlier round in another
C12_Witness ==
    /\ \E k \in 1..Len(received) : received[k].entry = ClientMessage(received[k].round)
    /\ \E k \in 1..Len(received) : received[k].entry.msg < received[k].round

\* C13 as stated: the server is never inside queue.get() on an empty queue.
C13_ServerNeverBlocked ==
    ~(spc = "get" /\ queue = <<>>)

\* the puts and the gets the client has made
ClientPuts == ci + (IF cpc \in {"wait", "get"} THEN 1 ELSE 0)

ClientGets == Len(received)

\* the entries in the queue or held by the server between its get and its put
InFlight == Len(queue) + (IF spc = "put" THEN 1 ELSE 0)

\* C16: the entries in the queue, plus one when the server has taken an entry
\* and not yet put its acknowledgment, are the client's puts less the client's
\* gets; so the queue never holds more than NumMessages entries, and the server
\* never changes the number in flight.
C16_ChannelConservation ==
    /\ InFlight = ClientPuts - ClientGets
    /\ Len(queue) <= NumMessages
    /\ (spc = "put") = (sdata # NoEntry)

\* the server holds an entry while the queue holds another and the client has
\* taken one
C16_Witness ==
    /\ spc = "put"
    /\ Len(queue) >= 1
    /\ Len(received) >= 1

\* C15: the table of registered modules only grows: a step that changes it
\* appends one entry under a name that was not registered, and logs that
\* registration; every other step (a register_module of a registered name, a
\* candidate that fails to import, run_module on a registered or an unknown
\* name, the dispatch over all modules, the threads) leaves it as it was, so no
\* entry is ever removed or bound to another module.
C15_RegistryAppendOnly ==
    [][ /\ Len(modules') >= Len(modules)
        /\ SubSeq(modules', 1, Len(modules)) = modules
        /\ modules' # modules =>
             /\ Len(modules') = Len(modules) + 1
             /\ ~DictHas(modules, Last(modules').name)
             /\ log' = Append(log, LogRecord("info", "registered",
                                             Last(modules').name))
        /\ (log' # log /\ Last(log').kind # "registered") => modules' = modules
        /\ (running' # running \/ di' # di) => modules' = modules ]_vars

\* a name was registered, registered again and refused, run, and an unknown
\* name was run, and the table holds the one entry
C15_Witness ==
    /\ pc = "caller"
    /\ Len(modules) = 1
    /\ Len(invoked) = 1
    /\ running = NoCall
    /\ \E k \in 1..Len(log) : log[k].kind = "already_exists"
    /\ \E k \in 1..Len(log) : log[k].kind = "not_found"

\* C14 as stated: with both threads scheduled fairly the client ends its loop:
\* it is never left inside queue.get() for ever.
C14_ClientTerminates == <>(cpc = "done")

\* the rest of C14, which the code keeps: the client puts one message per
\* round, NumMessages in all when it ends, and gets at most one entry per round
C14_PutsAndGetsPerRound ==
    /\ ClientPuts <= NumMessages
    /\ cpc = "done" => (ci = NumMessages /\ ClientPuts = NumMessages)
    /\ Len(received) <= ci
    /\ \A j, k \in 1..Len(received) : j < k => received[j].round < received[k].round

====
